---- MODULE Spec2Model ----
(***************************************************************************)
(* A model of src/pearsons.py: get_stock_data, calculate_correlation and   *)
(* the polling loop of continuous_monitor.                                 *)
(*                                                                         *)
(* The market-data provider (yfinance) is the environment: every call of   *)
(* stock.history either raises an Exception or returns a price series, a   *)
(* function from a finite set of timestamps to closing prices.  The wall   *)
(* clock is the variable now (seconds); it advances while the loop sleeps, *)
(* and the time a fetch or a print takes is taken to be negligible beside  *)
(* the 5 s sleep.  KeyboardInterrupt is asynchronous: the interpreter may  *)
(* raise it between any two statements.                                    *)
(***************************************************************************)
EXTENDS Integers, Sequences, FiniteSets, TLC

VARIABLES
    timeframe,        \* continuous_monitor parameter
    period,           \* continuous_monitor parameter
    requested,        \* arguments of the latest stock.history call, <<>> before any
    pc,               \* the statement continuous_monitor executes next
    now,              \* the wall clock, in seconds
    last_update,      \* local of continuous_monitor (None when unset)
    last_data_count,  \* local of continuous_monitor (None when unset)
    current_count,    \* len(stock1_data) of this iteration
    current_newest,   \* history: newest timestamp of this iteration's stock1_data
    last_newest,      \* history: current_newest of the iteration of the last report
    current_time,     \* datetime.now() of this iteration
    should_report,    \* value of the if-condition of lines 64-66 in this iteration
    correlation,      \* result of calculate_correlation in this iteration
    combined_len,     \* history: len(combined_data) inside calculate_correlation
    zero_variance,    \* history: whether a column of combined_data is constant
    exc,              \* cause of the Exception handled at lines 92-94, "" if none
    iterOut,          \* the lines printed since this iteration started
    prevOut,          \* what the previous iteration printed
    sigint,           \* history: a KeyboardInterrupt has been delivered
    clean,            \* history: so far no call raised or came back empty, no coefficient was NaN
    exit_status       \* "running", "success" (exit code 0) or "traceback"

vars == <<timeframe, period, requested, pc, now, last_update, last_data_count,
          current_count, current_newest, last_newest, current_time,
          should_report, correlation, combined_len, zero_variance, exc,
          iterOut, prevOut, sigint, clean, exit_status>>

(***************************************************************************)
(* Bounds of the model.                                                    *)
(***************************************************************************)
MaxTs == 2
MaxPrice == 2
MaxTime == 65

(***************************************************************************)
(* Program constants.                                                      *)
(***************************************************************************)
None == -1
ReportInterval == 60
PollSleep == 5
BackoffSleep == 5

Timestamps == 1..MaxTs
Prices == 1..MaxPrice

\* A closing-price series: data['Close'], indexed by timestamp.
PriceSeries == UNION {[S -> Prices] : S \in SUBSET Timestamps}

\* Failures the provider call or the pandas calls may raise.
Causes == {"network", "no data"}

Intraday == {"1m", "5m", "15m", "30m", "1h", "4h"}
Daily == {"1d", "1wk", "1mo"}
ValidTimeframes == Intraday \cup Daily
ValidPeriods == {"1d", "5d", "1mo", "3mo", "6mo", "1y", "2y", "5y", "10y", "ytd", "max"}

(***************************************************************************)
(* get_stock_data: the window handed to stock.history.                     *)
(***************************************************************************)
timeframe_mapping(p) ==
    [tf \in ValidTimeframes |->
        CASE tf = "1m" -> "7d"
          [] tf \in {"5m", "15m", "30m"} -> "60d"
          [] tf \in {"1h", "4h"} -> "730d"
          [] OTHER -> p]

\* A faulty variant of SelectedPeriod: the hourly intervals are missing from the table
\* and fall through to the caller's period.
SelectedPeriodHourlyHonoured(tf, p) ==
    IF tf \in {"1h", "4h"} THEN p
    ELSE IF tf \in DOMAIN timeframe_mapping(p) THEN timeframe_mapping(p)[tf] ELSE "1y"

\* timeframe_mapping.get(timeframe, '1y')
SelectedPeriod(tf, p) ==
    IF tf \in DOMAIN timeframe_mapping(p) THEN timeframe_mapping(p)[tf] ELSE "1y"

\* The arguments of stock.history(period=selected_period, interval=timeframe).
HistoryCall(tf, p) == <<SelectedPeriod(tf, p), tf>>

(***************************************************************************)
(* calculate_correlation: inner join and Pearson coefficient.              *)
(***************************************************************************)
SeriesLen(s) == Cardinality(DOMAIN s)

Newest(s) == IF DOMAIN s = {} THEN 0
             ELSE CHOOSE t \in DOMAIN s : \A u \in DOMAIN s : u <= t

\* pd.concat([a, b], axis=1, join='inner'): the rows of the shared timestamps.
Concat(a, b) == [t \in (DOMAIN a) \cap (DOMAIN b) |-> <<a[t], b[t]>>]

RECURSIVE Sum(_)
\* The sum of the values of a function with a finite domain.
Sum(f) ==
    IF DOMAIN f = {} THEN 0
    ELSE LET t == CHOOSE u \in DOMAIN f : TRUE
         IN f[t] + Sum([u \in (DOMAIN f) \ {t} |-> f[u]])

\* n * sum(x*x) - sum(x)^2, the variance of column i scaled by n^2.
ScaledVar(c, i) ==
    LET n == Cardinality(DOMAIN c)
        sx == Sum([t \in DOMAIN c |-> c[t][i]])
    IN n * Sum([t \in DOMAIN c |-> c[t][i] * c[t][i]]) - sx * sx

\* n * sum(x*y) - sum(x)*sum(y), the covariance scaled by n^2.
ScaledCov(c) ==
    LET n == Cardinality(DOMAIN c)
    IN n * Sum([t \in DOMAIN c |-> c[t][1] * c[t][2]])
         - Sum([t \in DOMAIN c |-> c[t][1]]) * Sum([t \in DOMAIN c |-> c[t][2]])

ZeroVariance(c) == ScaledVar(c, 1) = 0 \/ ScaledVar(c, 2) = 0

\* The coefficient is undefined (NaN) on fewer than two rows or a constant column.
Undefined(c) == Cardinality(DOMAIN c) < 2 \/ ZeroVariance(c)

NoResult == [type |-> "unset", nan |-> FALSE, num |-> 0, den2 |-> 0, cause |-> ""]

\* A Python float: NaN, or r = num / sqrt(den2).
Float(isnan, n, d) == [type |-> "float", nan |-> isnan, num |-> n, den2 |-> d, cause |-> ""]

\* The string f"Error: {str(e)}".
ErrorString(c) == [type |-> "str", nan |-> FALSE, num |-> 0, den2 |-> 0, cause |-> c]

\* Series.corr(other, method='pearson'): a float in every case, NaN when undefined.
Corr(c) ==
    IF Undefined(c) THEN Float(TRUE, 0, 0)
    ELSE Float(FALSE, ScaledCov(c), ScaledVar(c, 1) * ScaledVar(c, 2))

\* isinstance(correlation, float)
IsFloat(c) == c.type = "float"

(***************************************************************************)
(* continuous_monitor.                                                     *)
(***************************************************************************)
\* A faulty variant of ShouldReport: the two gates joined by `or`.
ShouldReportEither(lu, ct, lc, cc) ==
    (lu = None \/ ct - lu >= ReportInterval) \/ (lc = None \/ cc > lc)

\* The if-condition of lines 64-66.
ShouldReport(lu, ct, lc, cc) ==
    (lu = None \/ ct - lu >= ReportInterval) /\ (lc = None \/ cc > lc)

\* strftime('%H:%M:%S'): the time of day.
HMS(t) == t % 86400

\* f"{correlation:.4f}"; the digits of a number are not modelled.
Format4f(c) == IF c.nan THEN "nan" ELSE "number"

Line(k, t, x) == [kind |-> k, time |-> t, text |-> x]

ReportKinds == {"header", "value", "timeframe", "period"}

\* What an iteration printed, for the next iteration's prevOut.
Summary(out) ==
    IF out = <<>> THEN "silent"
    ELSE IF out[1].kind = "header" THEN "report" ELSE out[1].kind

TryBody == {"fetch", "gate", "calc", "isinstance", "print_header", "print_value",
            "print_timeframe", "print_period", "update", "print_error", "sleep"}
ExceptBody == {"except_print", "backoff"}

\* The locals of one iteration, dead once the iteration ends.
ResetLocals ==
    /\ current_count' = 0
    /\ current_newest' = 0
    /\ current_time' = 0
    /\ should_report' = FALSE
    /\ correlation' = NoResult
    /\ combined_len' = 0
    /\ zero_variance' = FALSE
    /\ exc' = ""

\* Lines 51-52 and the first pass through `while True`.
Init ==
    /\ timeframe \in {"1d", "5m"}
    /\ period = "1y"
    /\ requested = <<>>
    /\ pc = "fetch"
    /\ now = 0
    /\ last_update = None
    /\ last_data_count = None
    /\ current_count = 0
    /\ current_newest = 0
    /\ last_newest = 0
    /\ current_time = 0
    /\ should_report = FALSE
    /\ correlation = NoResult
    /\ combined_len = 0
    /\ zero_variance = FALSE
    /\ exc = ""
    /\ iterOut = <<>>
    /\ prevOut = "none"
    /\ sigint = FALSE
    /\ clean = TRUE
    /\ exit_status = "running"

\* Lines 57-61: the fetch of symbol1 returns a series.
FetchOk ==
    /\ pc = "fetch"
    /\ now <= MaxTime
    /\ \E s \in PriceSeries :
          /\ current_count' = SeriesLen(s)
          /\ current_newest' = Newest(s)
          /\ clean' = (clean /\ SeriesLen(s) > 0)
    /\ current_time' = now
    /\ UNCHANGED now
    /\ requested' = HistoryCall(timeframe, period)
    /\ pc' = "gate"
    /\ UNCHANGED <<timeframe, period, last_update, last_data_count, last_newest,
                   should_report, correlation, combined_len, zero_variance, exc,
                   iterOut, prevOut, sigint, exit_status>>

\* A faulty variant of FetchRaise: no `except Exception` clause, the failure ends the
\* process.
FetchRaiseUncaught ==
    /\ pc = "fetch"
    /\ now <= MaxTime
    /\ \E c \in Causes : exc' = c
    /\ UNCHANGED now
    /\ requested' = HistoryCall(timeframe, period)
    /\ pc' = "crashed"
    /\ exit_status' = "traceback"
    /\ clean' = FALSE
    /\ UNCHANGED <<timeframe, period, last_update, last_data_count, current_count,
                   current_newest, last_newest, current_time, should_report,
                   correlation, combined_len, zero_variance, iterOut, prevOut,
                   sigint>>

\* Line 57 raises: control passes to `except Exception` (line 92).
FetchRaise ==
    /\ pc = "fetch"
    /\ now <= MaxTime
    /\ \E c \in Causes : exc' = c
    /\ UNCHANGED now
    /\ requested' = HistoryCall(timeframe, period)
    /\ pc' = "except_print"
    /\ clean' = FALSE
    /\ UNCHANGED <<timeframe, period, last_update, last_data_count, current_count,
                   current_newest, last_newest, current_time, should_report,
                   correlation, combined_len, zero_variance, iterOut, prevOut,
                   sigint, exit_status>>

\* Lines 64-66.
Gate ==
    /\ pc = "gate"
    /\ should_report' = ShouldReport(last_update, current_time, last_data_count, current_count)
    /\ pc' = IF should_report' THEN "calc" ELSE "sleep"
    /\ UNCHANGED clean
    /\ UNCHANGED <<timeframe, period, requested, now, last_update, last_data_count,
                   current_count, current_newest, last_newest, current_time,
                   correlation, combined_len, zero_variance, exc, iterOut, prevOut,
                   sigint, exit_status>>

\* Line 68, calculate_correlation (lines 34-42): both fetches return and the
\* coefficient of the joined series is returned.
CalcReturn ==
    /\ pc = "calc"
    /\ \E s1 \in PriceSeries, s2 \in PriceSeries :
          LET combined_data == Concat(s1, s2)
          IN /\ correlation' = Corr(combined_data)
             /\ combined_len' = Cardinality(DOMAIN combined_data)
             /\ zero_variance' = ZeroVariance(combined_data)
             /\ clean' = (clean /\ ~Undefined(combined_data))
    /\ requested' = HistoryCall(timeframe, period)
    /\ pc' = "isinstance"
    /\ UNCHANGED <<timeframe, period, now, last_update, last_data_count,
                   current_count, current_newest, last_newest, current_time,
                   should_report, exc, iterOut, prevOut, sigint, exit_status>>

\* Line 68, calculate_correlation (lines 44-45): a fetch, the join or the
\* coefficient raises, and the error string is returned.
CalcExcept ==
    /\ pc = "calc"
    /\ \E c \in Causes : correlation' = ErrorString(c)
    /\ requested' = HistoryCall(timeframe, period)
    /\ pc' = "isinstance"
    /\ clean' = FALSE
    /\ UNCHANGED <<timeframe, period, now, last_update, last_data_count,
                   current_count, current_newest, last_newest, current_time,
                   should_report, combined_len, zero_variance, exc, iterOut,
                   prevOut, sigint, exit_status>>

\* Line 70.
IsInstance ==
    /\ pc = "isinstance"
    /\ pc' = IF IsFloat(correlation) THEN "print_header" ELSE "print_error"
    /\ UNCHANGED clean
    /\ UNCHANGED <<timeframe, period, requested, now, last_update, last_data_count,
                   current_count, current_newest, last_newest, current_time,
                   should_report, correlation, combined_len, zero_variance, exc,
                   iterOut, prevOut, sigint, exit_status>>

\* One print of the success report; line 78 flushes after the last.
Emit(at, line, next) ==
    /\ pc = at
    /\ iterOut' = Append(iterOut, line)
    /\ pc' = next
    /\ UNCHANGED clean
    /\ UNCHANGED <<timeframe, period, requested, now, last_update, last_data_count,
                   current_count, current_newest, last_newest, current_time,
                   should_report, correlation, combined_len, zero_variance, exc,
                   prevOut, sigint, exit_status>>

\* Line 71.
PrintHeader == Emit("print_header", Line("header", HMS(current_time), ""), "print_value")

\* Line 72.
PrintValue == Emit("print_value", Line("value", None, Format4f(correlation)), "print_timeframe")

\* Line 73.
PrintTimeframe == Emit("print_timeframe", Line("timeframe", None, timeframe), "print_period")

\* Lines 74-78.
PrintPeriod ==
    Emit("print_period",
          Line("period", None, IF timeframe \in Daily THEN period ELSE "auto"),
          "update")

\* A faulty variant of UpdateState: line 81 is missing.
UpdateStateTimeOnly ==
    /\ pc = "update"
    /\ last_update' = current_time
    /\ last_newest' = current_newest
    /\ pc' = "sleep"
    /\ UNCHANGED clean
    /\ UNCHANGED <<timeframe, period, requested, now, last_data_count, current_count,
                   current_newest, current_time, should_report, correlation,
                   combined_len, zero_variance, exc, iterOut, prevOut, sigint,
                   exit_status>>

\* Lines 80-81.
UpdateState ==
    /\ pc = "update"
    /\ last_update' = current_time
    /\ last_data_count' = current_count
    /\ last_newest' = current_newest
    /\ pc' = "sleep"
    /\ UNCHANGED clean
    /\ UNCHANGED <<timeframe, period, requested, now, current_count, current_newest,
                   current_time, should_report, correlation, combined_len,
                   zero_variance, exc, iterOut, prevOut, sigint, exit_status>>

\* A faulty variant of PrintError: the else branch prints nothing.
PrintErrorSilent ==
    /\ pc = "print_error"
    /\ pc' = "sleep"
    /\ UNCHANGED clean
    /\ UNCHANGED <<timeframe, period, requested, now, last_update, last_data_count,
                   current_count, current_newest, last_newest, current_time,
                   should_report, correlation, combined_len, zero_variance, exc,
                   iterOut, prevOut, sigint, exit_status>>

\* A faulty variant of PrintError: the else branch also restarts the 60 s gate.
PrintErrorBackoff ==
    /\ pc = "print_error"
    /\ iterOut' = Append(iterOut, Line("error", HMS(current_time), correlation.cause))
    /\ last_update' = current_time
    /\ pc' = "sleep"
    /\ UNCHANGED clean
    /\ UNCHANGED <<timeframe, period, requested, now, last_data_count,
                   current_count, current_newest, last_newest, current_time,
                   should_report, correlation, combined_len, zero_variance, exc,
                   prevOut, sigint, exit_status>>

\* Lines 83-84.
PrintError ==
    Emit("print_error", Line("error", HMS(current_time), correlation.cause), "sleep")

\* Line 87, then the next pass through `while True`.
Sleep ==
    /\ pc = "sleep"
    /\ now' = now + PollSleep
    /\ pc' = "fetch"
    /\ prevOut' = Summary(iterOut)
    /\ iterOut' = <<>>
    /\ ResetLocals
    /\ UNCHANGED clean
    /\ UNCHANGED <<timeframe, period, requested, last_update, last_data_count,
                   last_newest, sigint, exit_status>>

\* Line 93.
ExceptPrint ==
    /\ pc = "except_print"
    /\ iterOut' = Append(iterOut, Line("unexpected", HMS(now), exc))
    /\ pc' = "backoff"
    /\ UNCHANGED clean
    /\ UNCHANGED <<timeframe, period, requested, now, last_update, last_data_count,
                   current_count, current_newest, last_newest, current_time,
                   should_report, correlation, combined_len, zero_variance, exc,
                   prevOut, sigint, exit_status>>

\* Line 94, then the next pass through `while True`.
Backoff ==
    /\ pc = "backoff"
    /\ now' = now + BackoffSleep
    /\ pc' = "fetch"
    /\ prevOut' = Summary(iterOut)
    /\ iterOut' = <<>>
    /\ ResetLocals
    /\ UNCHANGED clean
    /\ UNCHANGED <<timeframe, period, requested, last_update, last_data_count,
                   last_newest, sigint, exit_status>>

\* A KeyboardInterrupt raised inside the try body (lines 56-87, and the calls
\* made there): lines 89-91 print the stop notice and break; main returns.
InterruptInTry ==
    /\ pc \in TryBody
    /\ sigint' = TRUE
    /\ iterOut' = Append(iterOut, Line("stop", None, ""))
    /\ pc' = "stopped"
    /\ exit_status' = "success"
    /\ UNCHANGED clean
    /\ UNCHANGED <<timeframe, period, requested, now, last_update, last_data_count,
                   current_count, current_newest, last_newest, current_time,
                   should_report, correlation, combined_len, zero_variance, exc,
                   prevOut>>

\* A KeyboardInterrupt raised inside the `except Exception` handler (lines
\* 93-94): no clause of the same try statement handles it, and neither does
\* `except ImportError` (line 133); the interpreter ends with a traceback.
InterruptInExcept ==
    /\ pc \in ExceptBody
    /\ sigint' = TRUE
    /\ pc' = "crashed"
    /\ exit_status' = "traceback"
    /\ UNCHANGED clean
    /\ UNCHANGED <<timeframe, period, requested, now, last_update, last_data_count,
                   current_count, current_newest, last_newest, current_time,
                   should_report, correlation, combined_len, zero_variance, exc,
                   iterOut, prevOut>>

Next ==
    \/ FetchOk
    \/ FetchRaise
    \/ Gate
    \/ CalcReturn
    \/ CalcExcept
    \/ IsInstance
    \/ PrintHeader
    \/ PrintValue
    \/ PrintTimeframe
    \/ PrintPeriod
    \/ UpdateState
    \/ PrintError
    \/ Sleep
    \/ ExceptPrint
    \/ Backoff
    \/ InterruptInTry
    \/ InterruptInExcept

Spec == Init /\ [][Next]_vars

(***************************************************************************)
(* get_stock_data on its own: one call for every interval and period.      *)
(***************************************************************************)
FetchInit ==
    /\ timeframe \in ValidTimeframes \cup {"2h"}
    /\ period \in ValidPeriods
    /\ requested = <<>>
    /\ pc = "call"
    /\ now = 0
    /\ last_update = None
    /\ last_data_count = None
    /\ current_count = 0
    /\ current_newest = 0
    /\ last_newest = 0
    /\ current_time = 0
    /\ should_report = FALSE
    /\ correlation = NoResult
    /\ combined_len = 0
    /\ zero_variance = FALSE
    /\ exc = ""
    /\ iterOut = <<>>
    /\ prevOut = "none"
    /\ sigint = FALSE
    /\ clean = TRUE
    /\ exit_status = "running"

\* Lines 26-27.
GetStockData ==
    /\ pc = "call"
    /\ requested' = HistoryCall(timeframe, period)
    /\ pc' = "returned"
    /\ UNCHANGED clean
    /\ UNCHANGED <<timeframe, period, now, last_update, last_data_count,
                   current_count, current_newest, last_newest, current_time,
                   should_report, correlation, combined_len, zero_variance, exc,
                   iterOut, prevOut, sigint, exit_status>>

FetchNext == GetStockData

FetchSpec == FetchInit /\ [][FetchNext]_vars

(***************************************************************************)
(* Properties.                                                             *)
(***************************************************************************)
\* The step prints a line of a success report or an error notification.
EmitsGated ==
    /\ Len(iterOut') = Len(iterOut) + 1
    /\ iterOut'[Len(iterOut')].kind \in ReportKinds \cup {"error"}

\* The four lines of one success report of this iteration.
FullReport(out) ==
    /\ Len(out) = 4
    /\ out[1] = Line("header", HMS(current_time), "")
    /\ out[2] = Line("value", None, Format4f(correlation))
    /\ out[3].kind = "timeframe"
    /\ out[4].kind = "period"

\* The number of success-report lines among the lines printed.
ReportLines(out) == Cardinality({i \in 1..Len(out) : out[i].kind \in ReportKinds})

\* The single error notification of this iteration, with its cause.
ErrorNotice(out) ==
    /\ correlation.cause \in Causes
    /\ out = <<Line("error", HMS(current_time), correlation.cause)>>

\* C1: with lastReportTimestamp = T0 and lastSampleCount = N0 stored by a
\* success report, a line of a success report or an error notification is
\* printed only in an iteration whose current time is at least T0 + 60 s and
\* whose sample count of the first instrument is strictly greater than N0.
C1_ReportingGate ==
    [][(EmitsGated /\ last_update # None)
         => /\ current_time >= last_update + ReportInterval
            /\ current_count > last_data_count]_vars

\* C1 witness: an iteration after a report, less than 60 s later, whose
\* sample count has grown, went to the poll sleep without printing.
C1_Witness ==
    /\ pc = "sleep"
    /\ iterOut = <<>>
    /\ last_update # None
    /\ current_time < last_update + ReportInterval
    /\ current_count > last_data_count

\* C2 (as claimed): when the join has fewer than 2 rows or a column of it
\* has zero variance, calculate_correlation returns an error, and the
\* iteration prints an error notification, no line of a success report, and
\* does not reach the state update.
C2_UndefinedIsError ==
    (correlation # NoResult /\ (combined_len < 2 \/ zero_variance))
      => /\ correlation.type = "str"
         /\ ReportLines(iterOut) = 0
         /\ pc # "update"
         /\ pc = "sleep" => ErrorNotice(iterOut)

\* C3: an Exception raised by the fetch of symbol1 is printed as a
\* timestamped "unexpected error" line and one raised inside
\* calculate_correlation as a timestamped error notification; either way the
\* loop then sleeps 5 s and starts the next iteration at the fetch; the loop
\* is left only after a KeyboardInterrupt.
C3_FailuresDoNotTerminate ==
    /\ [](pc = "backoff" => /\ exc \in Causes
                            /\ iterOut = <<Line("unexpected", HMS(now), exc)>>)
    /\ []((exc # "" /\ pc # "except_print") => pc \in {"backoff", "crashed"})
    /\ []((pc = "sleep" /\ correlation.type = "str") => ErrorNotice(iterOut))
    /\ [](pc \in {"stopped", "crashed"} => sigint)
    /\ [][((pc = "backoff" \/ (pc = "sleep" /\ correlation.type = "str")) /\ ~sigint')
            => (pc' = "fetch"
                /\ now' = now + (IF pc = "backoff" THEN BackoffSleep ELSE PollSleep))]_vars

\* C3 witness: the iteration after one that ended in an unexpected failure
\* has made its fetch.
C3_Witness == pc = "gate" /\ prevOut = "unexpected" /\ ~sigint

\* C4 (as claimed): once a KeyboardInterrupt has been delivered, the loop
\* has exited with exactly one stop notice printed and the process ends with
\* success status.
C4_CleanCancellation ==
    sigint => /\ pc = "stopped"
              /\ exit_status = "success"
              /\ Cardinality({i \in 1..Len(iterOut) : iterOut[i].kind = "stop"}) = 1

\* C5: an iteration whose fetch of symbol1 succeeded and whose gate was
\* satisfied reaches the poll sleep with exactly one output printed: one
\* whole success report, or one error notification carrying the cause.
C5_NoSilentSkip ==
    (pc = "sleep" /\ should_report) => (FullReport(iterOut) \/ ErrorNotice(iterOut))

\* C5 witness: a gate-satisfied iteration at its poll sleep after an error
\* notification.
C5_Witness == pc = "sleep" /\ should_report /\ ErrorNotice(iterOut)

\* C6: last_update and last_data_count are both unset or both set; they
\* change only in the state update of an iteration that has printed a whole
\* success report, together, to that iteration's current time and sample
\* count, and never back to unset.
C6_MonitorStateFrame ==
    /\ [](last_update = None <=> last_data_count = None)
    /\ [][(last_update' # last_update \/ last_data_count' # last_data_count)
            => /\ pc = "update"
               /\ FullReport(iterOut)
               /\ last_update' = current_time
               /\ last_data_count' = current_count
               /\ last_update' # None
               /\ last_data_count' # None]_vars

\* C6 witness: a second report has updated the state.
C6_Witness ==
    /\ pc = "sleep"
    /\ FullReport(iterOut)
    /\ last_update = current_time
    /\ last_data_count = current_count
    /\ current_time >= ReportInterval

\* C7: the window passed to the provider is 7d for 1m, 60d for 5m, 15m and
\* 30m, 730d for 1h and 4h, never the caller's period; for 1d, 1wk and 1mo
\* it is the caller's period.
C7_WindowOverride ==
    requested # <<>> =>
      /\ requested[2] = timeframe
      /\ timeframe = "1m" => requested[1] = "7d"
      /\ timeframe \in {"5m", "15m", "30m"} => requested[1] = "60d"
      /\ timeframe \in {"1h", "4h"} => requested[1] = "730d"
      /\ timeframe \in Intraday => requested[1] # period
      /\ timeframe \in Daily => requested[1] = period

\* C7 witness: a 5-minute interval with a window of 10 years fetched 60 days.
C7_Witness == timeframe = "5m" /\ period = "10y" /\ requested = <<"60d", "5m">>

\* C8 (as claimed): while every fetch has returned data and every
\* coefficient was defined, no poll at or after 60 s since the last report, whose
\* series of the first instrument holds a timestamp newer than every
\* timestamp of the series seen at that report, ends without a report.
C8_ReportsNewData ==
    ~ /\ clean
      /\ pc = "sleep"
      /\ iterOut = <<>>
      /\ last_update # None
      /\ current_time >= last_update + ReportInterval
      /\ current_newest > last_newest

\* C9 (as claimed): wherever an iteration ends, by the poll sleep or by a
\* KeyboardInterrupt, it has printed all four lines of a success report or
\* none of them.
C9_ReportNotHalfEmitted ==
    pc \in {"sleep", "stopped", "crashed"} => ReportLines(iterOut) \in {0, 4}

\* C10: an iteration whose gate is satisfied and whose computation fails
\* prints an error notification and leaves last_update and last_data_count
\* unchanged; the next poll starts 5 s later, and if the previous iteration
\* printed an error and the gate is still satisfied, the computation is
\* attempted again.
C10_ErrorsRepeat ==
    /\ []((pc = "sleep" /\ correlation.type = "str")
            => (should_report /\ ErrorNotice(iterOut)))
    /\ [][(correlation'.type = "str" \/ correlation.type = "str")
            => UNCHANGED <<last_update, last_data_count>>]_vars
    /\ [][(pc = "sleep" /\ correlation.type = "str" /\ ~sigint')
            => (pc' = "fetch" /\ now' = now + PollSleep)]_vars
    /\ [][(pc = "gate" /\ prevOut = "error" /\ ~sigint'
              /\ ShouldReport(last_update, current_time, last_data_count, current_count))
            => pc' = "calc"]_vars

\* C10 witness: after a report, two consecutive iterations have each printed
\* an error notification.
C10_Witness ==
    /\ pc = "sleep"
    /\ last_update # None
    /\ prevOut = "error"
    /\ ErrorNotice(iterOut)
====
